---- MODULE Spec2Model ----
(***************************************************************************)
(* A model of mime-detective (src/lib.rs): the MimeDetective facade over   *)
(* the magic engine (Cookie), the mime parser and std::fs::File.           *)
(*                                                                         *)
(* The facade's five operations are modelled as they are written; the      *)
(* three collaborators (engine, parser, file) are modelled by what the     *)
(* calls in lib.rs observe of them: a query answers a string or an error,  *)
(* the parser accepts or rejects a string, read_exact fills the buffer and *)
(* advances the handle, or fails.                                          *)
(***************************************************************************)
EXTENDS Integers, Sequences, FiniteSets, TLC

VARIABLES
    fs,         \* the file system: path -> [exists, content]
    detective,  \* the MimeDetective the caller holds (its cookie)
    built,      \* the MimeDetective as load_databases returned it
    handle,     \* the caller's open std::fs::File handle
    last,       \* the most recent call: its input, its result, the engine queries it issued
    prev        \* the detect call before it that it repeats, if it repeats one

vars == <<fs, detective, built, handle, last, prev>>

(***************************************************************************)
(* Bounds of the model.                                                    *)
(***************************************************************************)
MaxFileLen == 4     \* files hold 0..MaxFileLen bytes
MaxBufLen == 2      \* detect_buffer is called with 0..MaxBufLen bytes
MaxDbPaths == 2     \* load_databases is called with 1..MaxDbPaths paths

\* let mut buf: [u8; 2]
SniffLen == 2

\* Two classes of byte are enough for the signature rules below:
\* 0 stands for a printable ASCII byte, 1 for a non-text byte.
Byte == {0, 1}

SeqsUpTo(S, n) == UNION {[1..k -> S] : k \in 0..n}

Prefix(s, n) == SubSeq(s, 1, IF Len(s) < n THEN Len(s) ELSE n)

IsPrefix(p, s) == Len(p) <= Len(s) /\ SubSeq(s, 1, Len(p)) = p

RECURSIVE Concat(_)
Concat(ss) == IF ss = <<>> THEN <<>> ELSE Head(ss) \o Concat(Tail(ss))

(***************************************************************************)
(* Strings the engine answers, as sequences of characters.                 *)
(***************************************************************************)
TextPlainStr == <<"t", "e", "x", "t", "/", "p", "l", "a", "i", "n">>
TextShStr == <<"t", "e", "x", "t", "/", "x", "-", "s", "h">>
ImagePngStr == <<"i", "m", "a", "g", "e", "/", "p", "n", "g">>
DataStr == <<"d", "a", "t", "a">>
BadSubtypeStr == <<"t", "e", "x", "t", "/">>

TokenChars == {"a", "c", "d", "e", "g", "h", "i", "l", "m", "n", "o", "p", "s", "t", "x", "-"}

(***************************************************************************)
(* mime::Mime and its FromStr: type "/" subtype, both non-empty tokens.    *)
(***************************************************************************)
NoMime == [type |-> <<>>, subtype |-> <<>>]

TEXT_PLAIN == [type |-> <<"t", "e", "x", "t">>, subtype |-> <<"p", "l", "a", "i", "n">>]

IsToken(s) == Len(s) > 0 /\ \A i \in 1..Len(s) : s[i] \in TokenChars

SlashAt(s) == {i \in 1..Len(s) : s[i] = "/"}

MimeParse(s) ==
    IF SlashAt(s) = {}
    THEN [tag |-> "Err", mime |-> NoMime, err |-> "MissingSlash"]
    ELSE LET i == CHOOSE j \in SlashAt(s) : \A k \in SlashAt(s) : j <= k
             t == SubSeq(s, 1, i - 1)
             u == SubSeq(s, i + 1, Len(s))
         IN  IF IsToken(t) /\ IsToken(u)
             THEN [tag |-> "Ok", mime |-> [type |-> t, subtype |-> u], err |-> ""]
             ELSE [tag |-> "Err", mime |-> NoMime, err |-> "InvalidToken"]

(***************************************************************************)
(* The magic engine: signature databases on disk, Cookie::open,            *)
(* Cookie::load, Cookie::file and Cookie::buffer.                          *)
(***************************************************************************)
DefaultDb == "/usr/share/misc/magic.mgc"
NoDb == "nonexistent.mgc"

DbPaths == {DefaultDb, NoDb}

\* The rules of a database file: the leading bytes a rule matches and the
\* string the engine answers for it. A path that holds no database has none.
DbRules(p) ==
    IF p = DefaultDb
    THEN << [magic |-> <<0, 1, 1>>, out |-> TextShStr],
            [magic |-> <<1, 1, 0>>, out |-> ImagePngStr],
            [magic |-> <<0>>, out |-> TextPlainStr],
            [magic |-> <<1, 0>>, out |-> DataStr],
            [magic |-> <<1, 1, 1>>, out |-> BadSubtypeStr] >>
    ELSE << >>

DbExists(p) == p = DefaultDb

EngineOk(s) == [tag |-> "Ok", str |-> s, err |-> ""]
EngineErr(e) == [tag |-> "Err", str |-> <<>>, err |-> e]

\* Cookie::open(flags::MIME_TYPE): a session with nothing loaded, or an error.
NoCookie == [open |-> FALSE, rules |-> <<>>]

CookieOpen(libOk) ==
    IF libOk
    THEN [tag |-> "Ok", cookie |-> [open |-> TRUE, rules |-> <<>>], err |-> ""]
    ELSE [tag |-> "Err", cookie |-> NoCookie, err |-> "OpenFailed"]

\* cookie.load(paths): every path has to hold a database.
CookieLoad(cookie, paths) ==
    IF \A i \in 1..Len(paths) : DbExists(paths[i])
    THEN [tag |-> "Ok",
          cookie |-> [cookie EXCEPT !.rules = Concat([i \in 1..Len(paths) |-> DbRules(paths[i])])],
          err |-> ""]
    ELSE [tag |-> "Err", cookie |-> cookie, err |-> "LoadFailed"]

\* The first rule, in load order, whose magic the bytes start with.
Classify(cookie, bytes) ==
    LET hits == {i \in 1..Len(cookie.rules) : IsPrefix(cookie.rules[i].magic, bytes)}
    IN  IF hits = {}
        THEN EngineErr("NoMatch")
        ELSE EngineOk(cookie.rules[CHOOSE i \in hits : \A j \in hits : i <= j].out)

\* cookie.buffer(bytes)
CookieBuffer(cookie, bytes) == Classify(cookie, bytes)

\* cookie.file(path): the engine reads the whole file itself.
CookieFile(cookie, filesys, path) ==
    IF filesys[path].exists
    THEN Classify(cookie, filesys[path].content)
    ELSE EngineErr("NoSuchFile")

(***************************************************************************)
(* std::fs::File as detect_file uses it: a position in a file, and         *)
(* read_exact, which fills the whole buffer or fails. At end of file it    *)
(* has consumed what was left; a handle that is not open for reading fails *)
(* at once and consumes nothing.                                           *)
(***************************************************************************)
Paths == {"Cargo.toml", "missing.txt"}

NoHandle == [open |-> FALSE, path |-> "", pos |-> 0, readable |-> FALSE]

FileOpen(path, readable) == [open |-> TRUE, path |-> path, pos |-> 0, readable |-> readable]

Remaining(filesys, f) == Len(filesys[f.path].content) - f.pos

\* read_exact as a length check that fails without reading.
ReadExactNoConsume(filesys, f, n) ==
    LET content == filesys[f.path].content
    IN  IF f.readable /\ Len(content) - f.pos >= n
        THEN [tag |-> "Ok", buf |-> SubSeq(content, f.pos + 1, f.pos + n), err |-> "",
              file |-> [f EXCEPT !.pos = f.pos + n]]
        ELSE [tag |-> "Err", buf |-> <<>>,
              err |-> IF f.readable THEN "UnexpectedEof" ELSE "BadDescriptor", file |-> f]

\* read_exact as a read of the file's first bytes, whatever the position.
ReadExactFromStart(filesys, f, n) ==
    LET content == filesys[f.path].content
    IN  IF ~f.readable
        THEN [tag |-> "Err", buf |-> <<>>, err |-> "BadDescriptor", file |-> f]
        ELSE IF Len(content) - f.pos >= n
        THEN [tag |-> "Ok", buf |-> SubSeq(content, 1, n), err |-> "",
              file |-> [f EXCEPT !.pos = f.pos + n]]
        ELSE [tag |-> "Err", buf |-> <<>>, err |-> "UnexpectedEof",
              file |-> [f EXCEPT !.pos = Len(content)]]

ReadExact(filesys, f, n) ==
    LET content == filesys[f.path].content
    IN  IF ~f.readable
        THEN [tag |-> "Err", buf |-> <<>>, err |-> "BadDescriptor", file |-> f]
        ELSE IF Len(content) - f.pos >= n
        THEN [tag |-> "Ok", buf |-> SubSeq(content, f.pos + 1, f.pos + n), err |-> "",
              file |-> [f EXCEPT !.pos = f.pos + n]]
        ELSE [tag |-> "Err", buf |-> <<>>, err |-> "UnexpectedEof",
              file |-> [f EXCEPT !.pos = Len(content)]]

(***************************************************************************)
(* DetectiveError and the three From conversions.                          *)
(***************************************************************************)
Ok(m) == [tag |-> "Ok", mime |-> m, err |-> ""]

FromMagicError(err) == [tag |-> "Magic", mime |-> NoMime, err |-> err]

\* The parse error wrapped as the engine's.
FromFromStrErrorAsMagic(err) == [tag |-> "Magic", mime |-> NoMime, err |-> err]

FromFromStrError(err) == [tag |-> "Parse", mime |-> NoMime, err |-> err]

FromIoError(err) == [tag |-> "IO", mime |-> NoMime, err |-> err]

(***************************************************************************)
(* MimeDetective. Each operation answers its result, the detective after   *)
(* the call, the file handle after the call and the engine queries it      *)
(* issued, in order, each with the engine's answer.                        *)
(***************************************************************************)
NoDetective == [ok |-> FALSE, cookie |-> NoCookie]

Query(kind, path, bytes, out) == [kind |-> kind, path |-> path, bytes |-> bytes, out |-> out]

\* load_databases keeping the session when a path fails to load.
load_databases_partial(libOk, path) ==
    LET o == CookieOpen(libOk)
    IN  IF o.tag = "Err"
        THEN [result |-> FromMagicError(o.err), self |-> NoDetective]
        ELSE [result |-> Ok(NoMime),
              self |-> [ok |-> TRUE, cookie |-> CookieLoad(o.cookie, path).cookie]]

load_databases(libOk, path) ==
    LET o == CookieOpen(libOk)
    IN  IF o.tag = "Err"
        THEN [result |-> FromMagicError(o.err), self |-> NoDetective]
        ELSE LET l == CookieLoad(o.cookie, path)
             IN  IF l.tag = "Err"
                 THEN [result |-> FromMagicError(l.err), self |-> NoDetective]
                 ELSE [result |-> Ok(NoMime), self |-> [ok |-> TRUE, cookie |-> l.cookie]]

new(libOk) == load_databases(libOk, <<DefaultDb>>)

\* The parse step answering an empty Mime for a string it rejects.
ParseStepDefault(mime_str) == Ok(MimeParse(mime_str).mime)

\* let mime: mime::Mime = mime_str.parse()?; Ok(mime)
ParseStep(mime_str) ==
    LET m == MimeParse(mime_str)
    IN  IF m.tag = "Err" THEN FromFromStrError(m.err) ELSE Ok(m.mime)

\* detect_filepath opening the default database anew for each query.
detect_filepath_reopen(self, filesys, filename) ==
    LET fresh == new(TRUE).self
        q == CookieFile(fresh.cookie, filesys, filename)
    IN  [result |-> IF q.tag = "Err" THEN FromMagicError(q.err) ELSE ParseStep(q.str),
         self |-> fresh,
         queries |-> <<Query("file", filename, <<>>, q)>>]

detect_filepath(self, filesys, filename) ==
    LET q == CookieFile(self.cookie, filesys, filename)
    IN  [result |-> IF q.tag = "Err" THEN FromMagicError(q.err) ELSE ParseStep(q.str),
         self |-> self,
         queries |-> <<Query("file", filename, <<>>, q)>>]

\* detect_buffer dropping the loaded rules once it has answered.
detect_buffer_reset(self, buffer) ==
    LET q == CookieBuffer(self.cookie, buffer)
    IN  [result |-> IF q.tag = "Err" THEN FromMagicError(q.err) ELSE ParseStep(q.str),
         self |-> [self EXCEPT !.cookie.rules = <<>>],
         queries |-> <<Query("buffer", "", buffer, q)>>]

detect_buffer(self, buffer) ==
    LET q == CookieBuffer(self.cookie, buffer)
    IN  [result |-> IF q.tag = "Err" THEN FromMagicError(q.err) ELSE ParseStep(q.str),
         self |-> self,
         queries |-> <<Query("buffer", "", buffer, q)>>]

\* detect_file without the ? on read_exact: the query runs on what was read.
detect_file_unchecked(self, filesys, f) ==
    LET r == ReadExact(filesys, f, SniffLen)
        d == detect_buffer(self, r.buf)
    IN  [result |-> d.result, self |-> d.self, queries |-> d.queries, file |-> r.file]

\* detect_file with a buffer of four bytes.
detect_file_wide(self, filesys, f) ==
    LET r == ReadExact(filesys, f, SniffLen + SniffLen)
    IN  IF r.tag = "Err"
        THEN [result |-> FromIoError(r.err), self |-> self, queries |-> <<>>, file |-> r.file]
        ELSE LET d == detect_buffer(self, r.buf)
             IN  [result |-> d.result, self |-> d.self, queries |-> d.queries, file |-> r.file]

\* detect_file seeking back when the query or the parse fails.
detect_file_restore(self, filesys, f) ==
    LET r == ReadExact(filesys, f, SniffLen)
    IN  IF r.tag = "Err"
        THEN [result |-> FromIoError(r.err), self |-> self, queries |-> <<>>, file |-> r.file]
        ELSE LET d == detect_buffer(self, r.buf)
             IN  [result |-> d.result, self |-> d.self, queries |-> d.queries,
                  file |-> IF d.result.tag = "Ok" THEN r.file ELSE f]

detect_file(self, filesys, f) ==
    LET r == ReadExact(filesys, f, SniffLen)
    IN  IF r.tag = "Err"
        THEN [result |-> FromIoError(r.err), self |-> self, queries |-> <<>>, file |-> r.file]
        ELSE LET d == detect_buffer(self, r.buf)
             IN  [result |-> d.result, self |-> d.self, queries |-> d.queries, file |-> r.file]

(***************************************************************************)
(* The calls a program makes, one action per call.                         *)
(***************************************************************************)
DetectOps == {"detect_filepath", "detect_file", "detect_buffer"}

Call(op, path, paths, libOk, buffer, before, after, result, queries) ==
    [op |-> op, path |-> path, paths |-> paths, libOk |-> libOk, buffer |-> buffer,
     before |-> before, after |-> after, result |-> result, queries |-> queries]

NoCall == Call("none", "", <<>>, TRUE, <<>>, NoHandle, NoHandle, Ok(NoMime), <<>>)

\* The detect call made before the one being made.
Earlier == IF last.op \in DetectOps THEN last ELSE prev

\* The earlier detect call, when the call being made repeats it: the same
\* operation on the same path, the same bytes, or a handle on the same file.
\* Opening a file keeps the earlier detect_file call on it, for the next one.
Repeated(op, path, buffer) ==
    IF Earlier.op = op /\ Earlier.path = path /\ Earlier.buffer = buffer
    THEN Earlier
    ELSE NoCall

FileSystems ==
    {[p \in Paths |-> IF p = "Cargo.toml"
                      THEN [exists |-> TRUE, content |-> c]
                      ELSE [exists |-> FALSE, content |-> <<>>]] :
        c \in SeqsUpTo(Byte, MaxFileLen)}

Init ==
    /\ fs \in FileSystems
    /\ detective = NoDetective
    /\ built = NoDetective
    /\ handle = NoHandle
    /\ last = NoCall
    /\ prev = NoCall

\* A behaviour follows one detective: the caller constructs until a
\* construction succeeds and then uses the detective it got.
Constructed(r, op, paths, libOk) ==
    /\ ~detective.ok
    /\ detective' = r.self
    /\ built' = r.self
    /\ last' = Call(op, "", paths, libOk, <<>>, handle, handle, r.result, <<>>)
    /\ prev' = NoCall
    /\ UNCHANGED <<fs, handle>>

New ==
    \E libOk \in BOOLEAN :
        Constructed(new(libOk), "new", <<>>, libOk)

LoadDatabases ==
    \E libOk \in BOOLEAN, paths \in SeqsUpTo(DbPaths, MaxDbPaths) \ {<<>>} :
        Constructed(load_databases(libOk, paths), "load_databases", paths, libOk)

\* File::open(path), or an open for writing only
Open ==
    \E path \in Paths, readable \in BOOLEAN :
        /\ fs[path].exists
        /\ handle' = FileOpen(path, readable)
        /\ last' = Call("open", path, <<>>, TRUE, <<>>, NoHandle, handle',
                        Ok(NoMime), <<>>)
        /\ prev' = Repeated("detect_file", path, <<>>)
        /\ UNCHANGED <<fs, detective, built>>

DetectFilepath ==
    \E path \in Paths :
        /\ detective.ok
        /\ LET d == detect_filepath(detective, fs, path)
           IN  /\ detective' = d.self
               /\ last' = Call("detect_filepath", path, <<>>, TRUE, <<>>, handle, handle,
                               d.result, d.queries)
        /\ prev' = Repeated("detect_filepath", path, <<>>)
        /\ UNCHANGED <<fs, built, handle>>

DetectFile ==
    /\ detective.ok
    /\ handle.open
    /\ LET d == detect_file(detective, fs, handle)
       IN  /\ detective' = d.self
           /\ handle' = d.file
           /\ last' = Call("detect_file", handle.path, <<>>, TRUE, <<>>, handle, d.file,
                           d.result, d.queries)
    /\ prev' = Repeated("detect_file", handle.path, <<>>)
    /\ UNCHANGED <<fs, built>>

DetectBuffer ==
    \E buffer \in SeqsUpTo(Byte, MaxBufLen) :
        /\ detective.ok
        /\ LET d == detect_buffer(detective, buffer)
           IN  /\ detective' = d.self
               /\ last' = Call("detect_buffer", "", <<>>, TRUE, buffer, handle, handle,
                               d.result, d.queries)
        /\ prev' = Repeated("detect_buffer", "", buffer)
        /\ UNCHANGED <<fs, built, handle>>

Next ==
    \/ New
    \/ LoadDatabases
    \/ Open
    \/ DetectFilepath
    \/ DetectFile
    \/ DetectBuffer

Spec == Init /\ [][Next]_vars

(***************************************************************************)
(* The properties.                                                         *)
(***************************************************************************)
Causes == {"Magic", "Parse", "IO"}

\* The engine answered the call's one query and the parser accepts the answer.
EngineAndParserAccept(c) ==
    /\ Len(c.queries) = 1
    /\ c.queries[1].out.tag = "Ok"
    /\ MimeParse(c.queries[1].out.str).tag = "Ok"

\* C1: a detect call answers a Mime exactly when the engine query succeeded
\* and the parser accepted the engine's string, and then it is the Mime the
\* parser made of that string; every other call answers an error of exactly
\* one of the three causes and no Mime.
C1_MimeIffEngineAndParser ==
    last.op \in DetectOps =>
        /\ last.result.tag \in Causes \cup {"Ok"}
        /\ (last.result.tag = "Ok") <=> EngineAndParserAccept(last)
        /\ last.result.tag = "Ok" =>
               /\ last.result.mime = MimeParse(last.queries[1].out.str).mime
               /\ last.result.mime # NoMime
        /\ last.result.tag \in Causes => last.result.mime = NoMime

C1_Witness ==
    /\ last.op = "detect_filepath"
    /\ last.result.tag = "Ok"
    /\ prev.op = "detect_filepath"
    /\ prev.result.tag = "Ok"

\* What the engine answers to the query of a detect_filepath or detect_buffer call.
EngineAnswer(c) ==
    IF c.op = "detect_filepath"
    THEN CookieFile(built.cookie, fs, c.path)
    ELSE CookieBuffer(built.cookie, c.buffer)

\* C2: detect_filepath and detect_buffer answer the Magic cause, carrying the
\* engine's error, when the engine query fails, the Parse cause, carrying the
\* parser's error, when the engine's string is not a MIME type, and never the
\* IO cause.
C2_MagicAndParseCauses ==
    last.op \in {"detect_filepath", "detect_buffer"} =>
        LET q == EngineAnswer(last)
        IN  /\ q.tag = "Err" => last.result = [tag |-> "Magic", mime |-> NoMime, err |-> q.err]
            /\ (q.tag = "Ok" /\ MimeParse(q.str).tag = "Err") =>
                   last.result = [tag |-> "Parse", mime |-> NoMime, err |-> MimeParse(q.str).err]
            /\ last.result.tag # "IO"

C2_Witness ==
    /\ last.op = "detect_buffer"
    /\ last.result = FromFromStrError("MissingSlash")
    /\ EngineAnswer(last) = EngineOk(DataStr)

\* C3: detect_file on a handle with fewer than 2 bytes left, or one that
\* cannot be read, answers the IO cause and has issued no engine query.
C3_ReadFailureBeforeQuery ==
    last.op = "detect_file" =>
        /\ (~last.before.readable \/ Remaining(fs, last.before) < SniffLen) =>
               last.result.tag = "IO" /\ last.queries = <<>>
        /\ last.result.tag = "IO" => last.queries = <<>>

C3_Witness ==
    /\ last.op = "detect_file"
    /\ last.before.readable
    /\ Remaining(fs, last.before) = 1
    /\ last.result = FromIoError("UnexpectedEof")
    /\ last.queries = <<>>

\* C4: on a readable handle, detect_file that succeeds has advanced the
\* handle by exactly 2 bytes; with fewer than 2 bytes left it consumes what
\* is left, leaving the handle at end of file, and fails with the IO cause;
\* no call moves the handle by more than 2 bytes, or backwards.
C4_AdvancesByTwo ==
    last.op = "detect_file" =>
        /\ handle = last.after
        /\ last.after.pos - last.before.pos \in 0..SniffLen
        /\ last.result.tag = "Ok" => last.after.pos = last.before.pos + SniffLen
        /\ (last.before.readable /\ Remaining(fs, last.before) < SniffLen) =>
               /\ last.after.pos = Len(fs[last.before.path].content)
               /\ last.after.pos - last.before.pos = Remaining(fs, last.before)
               /\ last.result.tag = "IO"

C4_Witness ==
    /\ last.op = "detect_file"
    /\ last.before.readable
    /\ last.before.pos = SniffLen
    /\ Remaining(fs, last.before) = 1
    /\ handle.pos = SniffLen + 1
    /\ last.result.tag = "IO"

\* C5: load_databases answers a detective only when the session opened and
\* every path loaded, and the detective holds the rules of the paths in the
\* order given; otherwise it answers the Magic cause and no detective.
\* new() is load_databases on the default database path.
C5_LoadAllOrNothing ==
    /\ last.op = "load_databases" =>
           LET good == last.libOk /\ \A i \in 1..Len(last.paths) : DbExists(last.paths[i])
           IN  /\ (last.result.tag = "Ok") <=> good
               /\ good => /\ detective.ok
                          /\ detective.cookie.open
                          /\ detective.cookie.rules =
                                 Concat([i \in 1..Len(last.paths) |-> DbRules(last.paths[i])])
               /\ ~good => last.result.tag = "Magic" /\ detective = NoDetective
    /\ last.op = "new" =>
           /\ (last.result.tag = "Ok") <=> last.libOk
           /\ last.libOk => detective = [ok |-> TRUE,
                                         cookie |-> [open |-> TRUE, rules |-> DbRules(DefaultDb)]]
           /\ ~last.libOk => last.result.tag = "Magic" /\ detective = NoDetective

C5_Witness ==
    /\ last.op = "load_databases"
    /\ last.libOk
    /\ last.paths = <<DefaultDb, NoDb>>
    /\ last.result = FromMagicError("LoadFailed")
    /\ ~detective.ok

\* Plain text that its first 2 bytes are enough to classify: the engine
\* answers text/plain for the content and for its first 2 bytes.
PlainTextByTwo(cookie, content) ==
    /\ Len(content) >= SniffLen
    /\ Classify(cookie, content) = EngineOk(TextPlainStr)
    /\ Classify(cookie, Prefix(content, SniffLen)) = EngineOk(TextPlainStr)

\* C6: for plain text that its first 2 bytes classify, detect_filepath on the
\* file, detect_file on a freshly opened handle and detect_buffer on the
\* first 2 bytes all answer text/plain.
C6_ThreeShapesAgree ==
    \A p \in Paths :
        (detective.ok /\ fs[p].exists /\ PlainTextByTwo(detective.cookie, fs[p].content)) =>
            /\ (last.op = "detect_filepath" /\ last.path = p) => last.result = Ok(TEXT_PLAIN)
            /\ (last.op = "detect_file" /\ last.before = FileOpen(p, TRUE)) =>
                   last.result = Ok(TEXT_PLAIN)
            /\ (last.op = "detect_buffer" /\ last.buffer = Prefix(fs[p].content, SniffLen)) =>
                   last.result = Ok(TEXT_PLAIN)

C6_Witness ==
    /\ detective.ok
    /\ PlainTextByTwo(detective.cookie, fs["Cargo.toml"].content)
    /\ Len(fs["Cargo.toml"].content) > SniffLen
    /\ last.op = "detect_file"
    /\ last.before = FileOpen("Cargo.toml", TRUE)
    /\ last.result = Ok(TEXT_PLAIN)

\* C7 as stated: a detect call that repeats the one before it with the same
\* input answers what that one answered, detect_file called twice in a row
\* on the same open handle included.
C7_RepeatSameHandle ==
    (last.op \in DetectOps /\ prev.op = last.op /\ (last.op = "detect_file" => last.before = prev.after)) =>
        last.result = prev.result

\* C7: a detect call that repeats the one before it answers what that one
\* answered when the input is the same: the same path, the same bytes, or a
\* handle at the same position of the same file.
C7_RepeatSameInput ==
    (last.op \in DetectOps /\ prev.op = last.op /\ (last.op = "detect_file" => last.before = prev.before)) =>
        last.result = prev.result

C7_Witness ==
    /\ last.op = "detect_file"
    /\ prev.op = "detect_file"
    /\ last.before = prev.before
    /\ last.result.tag = "Ok"
    /\ last.result = prev.result

\* C8: the detective is, after any detect calls, the detective its
\* construction answered.
C8_DetectiveUnchanged == detective = built

C8_Witness ==
    /\ detective.ok
    /\ detective = built
    /\ last.op = "detect_filepath"
    /\ last.result.tag = "Magic"
    /\ prev.op = "detect_filepath"

\* C9: with at least 2 bytes left at the position p of a readable handle,
\* detect_file answers what detect_buffer answers on the bytes at p and p+1,
\* and its one engine query is detect_buffer's.
C9_FileIsBufferOfWindow ==
    (last.op = "detect_file" /\ last.before.readable
        /\ Remaining(fs, last.before) >= SniffLen) =>
        LET p == last.before.pos
            window == SubSeq(fs[last.before.path].content, p + 1, p + SniffLen)
        IN  /\ last.result = detect_buffer(built, window).result
            /\ last.queries = detect_buffer(built, window).queries

C9_Witness ==
    /\ last.op = "detect_file"
    /\ last.before.pos = SniffLen
    /\ Remaining(fs, last.before) >= SniffLen
    /\ last.result.tag = "Ok"
    /\ prev.op = "detect_file"
    /\ prev.result.tag = "Magic"

\* C10: when the read succeeded and the engine query or the parse failed,
\* detect_file leaves the handle advanced by exactly 2 bytes.
C10_AdvancedOnLaterFailure ==
    (last.op = "detect_file" /\ last.result.tag \in {"Magic", "Parse"}) =>
        /\ handle = last.after
        /\ handle.pos = last.before.pos + SniffLen
        /\ handle.path = last.before.path

C10_Witness ==
    /\ last.op = "detect_file"
    /\ last.result.tag = "Parse"
    /\ last.before.pos = 0
    /\ handle.pos = SniffLen

====
